---------------------------- MODULE Spec2Model ----------------------------
(***************************************************************************)
(* A model of create_pdf_from_sorted_img.py: the pipeline of main_caller   *)
(* (make the working directory, rasterize, crop every image and read its   *)
(* date, sort, lay the images out one page per week, save, delete the      *)
(* working directory), the date parsing of one matched timestamp, and the  *)
(* crop of one image.                                                      *)
(***************************************************************************)
EXTENDS Integers, Sequences, FiniteSets, TLC

\* ------------------------------------------------------------------ bounds

\* Images the rasterizer hands over in one run.
MaxImages == 3
\* Largest character offset of a match within an image's text.
MaxOffset == 55
\* Day and month fields of a timestamp run over 0..MaxLowField and 28..32.
MaxLowField == 13

\* ------------------------------------------------------- program constants

x_pos == 50
y_pos == 780

\* ---------------------------------------------------------------- calendar

IsLeap(year) == (year % 4 = 0 /\ year % 100 # 0) \/ year % 400 = 0

DaysInMonth(year, month) ==
    IF month = 2 THEN (IF IsLeap(year) THEN 29 ELSE 28)
    ELSE IF month \in {4, 6, 9, 11} THEN 30 ELSE 31

RECURSIVE DaysBeforeMonth(_, _)
DaysBeforeMonth(year, month) ==
    IF month = 1 THEN 0
    ELSE DaysBeforeMonth(year, month - 1) + DaysInMonth(year, month - 1)

\* date.toordinal(): January 1 of year 1 is day 1.
ToOrdinal(d) ==
    LET y == d.year - 1
    IN  365 * y + (y \div 4) - (y \div 100) + (y \div 400)
        + DaysBeforeMonth(d.year, d.month) + d.day

\* strftime("%U"): the week of the year with Sunday as the first day of the
\* week; the days before the year's first Sunday are week 0.
WeekOfYearU(d) ==
    LET yday == DaysBeforeMonth(d.year, d.month) + d.day - 1
        wday == ToOrdinal(d) % 7
    IN  (yday + 7 - wday) \div 7

\* int((date.day - 1) // 7 + 1)
WeekIndex(d) == ((d.day - 1) \div 7) + 1

\* datetime's order: year, month, day, hour, minute.
DtLess(a, b) ==
    \/ a.year < b.year
    \/ a.year = b.year /\ a.month < b.month
    \/ a.year = b.year /\ a.month = b.month /\ a.day < b.day
    \/ a.year = b.year /\ a.month = b.month /\ a.day = b.day /\ a.hour < b.hour
    \/ a.year = b.year /\ a.month = b.month /\ a.day = b.day /\ a.hour = b.hour
       /\ a.minute < b.minute

\* ------------------------------------------------------- timestamp parsing

\* A substring date_time_regex matches, by its fields:
\*   f1 "/" f2 "/" yr (ydigits digits) ", " hr ":" mi [":ss" if sec] [" " mer]
FmtMonthFirst12 == "%m/%d/%y, %I:%M %p"
FmtDayFirst12 == "%d/%m/%y, %I:%M %p"
FmtDayFirst24 == "%d/%m/%y, %H:%M"

ValueError == [ok |-> FALSE, year |-> 0, month |-> 0, day |-> 0, hour |-> 0, minute |-> 0]

\* datetime.strptime(s, fmt) for the three formats the program uses.
Strptime(s, fmt) ==
    LET monthFirst == fmt = FmtMonthFirst12
        twelve == fmt \in {FmtMonthFirst12, FmtDayFirst12}
        mo == IF monthFirst THEN s.f1 ELSE s.f2
        dy == IF monthFirst THEN s.f2 ELSE s.f1
        year == IF s.yr <= 68 THEN 2000 + s.yr ELSE 1900 + s.yr
        hour == IF ~twelve THEN s.hr
                ELSE IF s.mer = "AM" THEN (IF s.hr = 12 THEN 0 ELSE s.hr)
                ELSE (IF s.hr = 12 THEN 12 ELSE s.hr + 12)
        fieldsOk == /\ mo \in 1..12
                    /\ dy \in 1..31
                    /\ s.ydigits = 2
                    /\ s.mi \in 0..59
                    /\ ~s.sec
                    /\ IF twelve THEN s.hr \in 1..12 /\ s.mer \in {"AM", "PM"}
                                 ELSE s.hr \in 0..23 /\ s.mer = ""
    IN  IF fieldsOk /\ dy <= DaysInMonth(year, mo)
        THEN [ok |-> TRUE, year |-> year, month |-> mo, day |-> dy,
              hour |-> hour, minute |-> s.mi]
        ELSE ValueError

\* The try/except with the first two attempts swapped.
ParseDatetimeDayFirst(s) ==
    LET a == Strptime(s, FmtDayFirst12)
        b == Strptime(s, FmtMonthFirst12)
        c == Strptime(s, FmtDayFirst24)
    IN  IF a.ok THEN a ELSE IF b.ok THEN b ELSE c

\* The nested try/except of crop_img_n_get_date.
ParseDatetime(s) ==
    LET a == Strptime(s, FmtMonthFirst12)
        b == Strptime(s, FmtDayFirst12)
        c == Strptime(s, FmtDayFirst24)
    IN  IF a.ok THEN a ELSE IF b.ok THEN b ELSE c

\* The timestamp strings the parsing is checked on.
FieldVals == (0..MaxLowField) \cup (28..32)
TimestampStrings ==
    [f1 : FieldVals, f2 : FieldVals, yr : {22, 24}, ydigits : {2, 4},
     hr : {0, 1, 12, 13, 14, 23, 24, 25}, mi : {0, 59, 60}, sec : BOOLEAN,
     mer : {"", "AM", "PM"}]

\* -------------------------------------------------------------------- crop

\* The window with the second range's lower test not strict.
CropWindowInclusive(start, end) ==
    IF start < 5 THEN [top |-> start, bottom |-> end + 900]
    ELSE IF start >= 10 /\ start < 45 THEN [top |-> start + 600, bottom |-> end + 1250]
    ELSE IF start >= 50 THEN [top |-> start + 700, bottom |-> end + 1200]
    ELSE [top |-> start, bottom |-> end + 700]

\* The row window the program slices, by the timestamp's character offset.
CropWindow(start, end) ==
    IF start < 5 THEN [top |-> start, bottom |-> end + 900]
    ELSE IF start > 10 /\ start < 45 THEN [top |-> start + 600, bottom |-> end + 1250]
    ELSE IF start >= 50 THEN [top |-> start + 700, bottom |-> end + 1200]
    ELSE [top |-> start, bottom |-> end + 700]

Min(a, b) == IF a < b THEN a ELSE b
Max(a, b) == IF a > b THEN a ELSE b

\* The rows of img[top:bottom, :] for an image of `height` rows: a slice bound
\* past the end counts as the end, a negative one counts from the end.
NumpyRows(top, bottom, height) ==
    LET norm(j) == IF j < 0 THEN Max(0, height + j) ELSE Min(j, height)
    IN  Max(0, norm(bottom) - norm(top))

\* cv2.resize(cropped_img, (700, 300)) and cv2.imwrite: resize raises
\* cv2.error on an image with no rows.
ResizeWrite(rows) == IF rows = 0 THEN "resize_error" ELSE "written"

\* The iteration with every defective text skipped instead of raising.
IterationSkipsNoMatch(matches, start, term, height) ==
    IF matches = <<>> THEN [append |-> FALSE, dt |-> ValueError, outcome |-> "written"]
    ELSE IF term = <<>> THEN [append |-> FALSE, dt |-> ValueError, outcome |-> "written"]
    ELSE LET datetime_o == ParseDatetime(matches[1])
             w == CropWindow(start, term[1])
         IN  IF ~datetime_o.ok
             THEN [append |-> FALSE, dt |-> ValueError, outcome |-> "written"]
             ELSE [append |-> TRUE, dt |-> datetime_o,
                   outcome |-> ResizeWrite(NumpyRows(w.top, w.bottom, height))]

\* One iteration of the loop of crop_img_n_get_date on one image:
\*   matches   re.findall(date_time_regex, text), <<>> or <<the first match>>
\*   start     the first match's offset, re.search(date_time_regex, text).start(0)
\*   term      <<>> or <<the offset of the first img_crop_end_regex match>>
\*   height    the image's rows
\* The result says whether (filename, datetime_obj) was appended and how the
\* iteration ended: "written", or the exception that left the loop:
\*   no_timestamp   AttributeError, re.search(date_time_regex, text) is None
\*   parse_error    ValueError of the last strptime
\*   no_terminator  AttributeError, re.search(img_crop_end_regex, text) is None
\*   resize_error   cv2.error
IterationResult(matches, start, term, height) ==
    IF matches = <<>>
    THEN [append |-> FALSE, dt |-> ValueError, outcome |-> "no_timestamp"]
    ELSE LET datetime_o == ParseDatetime(matches[1])
         IN  IF ~datetime_o.ok
             THEN [append |-> FALSE, dt |-> ValueError, outcome |-> "parse_error"]
             ELSE IF term = <<>>
             THEN [append |-> TRUE, dt |-> datetime_o, outcome |-> "no_terminator"]
             ELSE LET w == CropWindow(start, term[1])
                  IN  [append |-> TRUE, dt |-> datetime_o,
                       outcome |-> ResizeWrite(NumpyRows(w.top, w.bottom, height))]

\* -------------------------------------------------------------------- sort

\* An insertion that puts an entry before the entries of the same key.
RECURSIVE SortInsertBeforeEqual(_, _)
SortInsertBeforeEqual(e, sorted) ==
    IF sorted = <<>> THEN <<e>>
    ELSE IF ~DtLess(sorted[Len(sorted)].dt, e.dt)
         THEN Append(SortInsertBeforeEqual(e, SubSeq(sorted, 1, Len(sorted) - 1)),
                     sorted[Len(sorted)])
         ELSE Append(sorted, e)

\* image_data_list.sort(key=lambda x: x[1]): list.sort is stable, an entry
\* goes behind every entry whose key is not greater.
RECURSIVE SortInsert(_, _)
SortInsert(e, sorted) ==
    IF sorted = <<>> THEN <<e>>
    ELSE IF DtLess(e.dt, sorted[Len(sorted)].dt)
         THEN Append(SortInsert(e, SubSeq(sorted, 1, Len(sorted) - 1)), sorted[Len(sorted)])
         ELSE Append(sorted, e)

RECURSIVE SortByDate(_)
SortByDate(list) ==
    IF list = <<>> THEN <<>>
    ELSE SortInsert(list[Len(list)], SortByDate(SubSeq(list, 1, Len(list) - 1)))

\* ------------------------------------------------------------------ layout

\* The first position of v in list (list.index(v)), 1-based.
IndexOf(list, v) == CHOOSE j \in 1..Len(list) : list[j] = v /\ \A h \in 1..(j - 1) : list[h] # v

\* [image_path for image_path, date in image_data_list
\*             if int((date.day - 1) // 7 + 1) == int(i+1)]
WeekSpecific(data, week) ==
    LET InWeek(e) == WeekIndex(e.dt) = week
        sel == SelectSeq(data, InWeek)
    IN  [j \in 1..Len(sel) |-> sel[j].file]

\* idx is the 0-based index of a member of the page.
CellX(idx) == IF idx % 2 = 0 THEN x_pos ELSE x_pos + 300

\* A row step of 65 per pair of members.
CellYOffsetPerPair(idx) == 65 * (idx \div 2)

\* y of the member: 65*idx in the left column, 65*(idx-1) in the right one.
CellYOffset(idx) == IF idx % 2 = 0 THEN 65 * idx ELSE 65 * (idx - 1)

\* The drawString and drawImage calls of one page.
PageCells(page_images) ==
    [j \in 1..Len(page_images) |->
        [file |-> page_images[j].file,
         dt |-> page_images[j].dt,
         x |-> CellX(j - 1),
         label_y |-> y_pos - CellYOffset(j - 1),
         image_y |-> y_pos - (CellYOffset(j - 1) + 100)]]

\* ------------------------------------------------------------------- state

VARIABLES
    pc,               \* where main_caller is
    dirExists,        \* whether images_directory exists
    nfiles,           \* the files of images_directory (os.listdir's order: 1..nfiles)
    k,                \* the file the loop of crop_img_n_get_date is at
    image_data_list,  \* (filename, datetime_obj) entries
    image_list,
    date_list,
    num_weeks,
    i,                \* the page loop's variable
    pages,            \* the pages drawn: the heading's week and the cells
    saved,            \* pdf_canvas.save() has run
    failure,          \* the exception that ended the run, "none" if none
    text_defect,      \* what the text of the image read last lacks, "none" if nothing
    datetime_str,     \* parsing alone: the matched string
    datetime_obj,     \* parsing alone: the result
    parsed,
    crop_in,          \* cropping alone: start, end, height
    cropped_img,      \* cropping alone: the window and the rows sliced
    crop_out          \* cropping alone: "pending", "written" or "resize_error"

vars == <<pc, dirExists, nfiles, k, image_data_list, image_list, date_list, num_weeks,
          i, pages, saved, failure, text_defect, datetime_str, datetime_obj, parsed, crop_in,
          cropped_img, crop_out>>

pipeVars == <<pc, dirExists, nfiles, k, image_data_list, image_list, date_list,
              num_weeks, i, pages, saved, failure, text_defect>>
parseVars == <<datetime_str, datetime_obj, parsed>>
cropVars == <<crop_in, cropped_img, crop_out>>

NoString == [f1 |-> 0, f2 |-> 0, yr |-> 0, ydigits |-> 2, hr |-> 0, mi |-> 0,
             sec |-> FALSE, mer |-> ""]
NoWindow == [top |-> 0, bottom |-> 0, rows |-> 0]

ParseIdle == datetime_str = NoString /\ datetime_obj = ValueError /\ parsed = FALSE
CropIdle ==
    /\ crop_in = [start |-> 0, end |-> 0, height |-> 0]
    /\ cropped_img = NoWindow
    /\ crop_out = "idle"

PipeStart(p, dirs) ==
    /\ pc = p
    /\ dirExists \in dirs
    /\ nfiles = 0
    /\ k = 1
    /\ image_data_list = <<>>
    /\ image_list = <<>>
    /\ date_list = <<>>
    /\ num_weeks = 0
    /\ i = 0
    /\ pages = <<>>
    /\ saved = FALSE
    /\ failure = "none"
    /\ text_defect = "none"

\* ---------------------------------------------------------------- pipeline

\* What the OCR reads in the images of a run: the timestamps, the offsets of
\* the two matches, and the images' heights.
OcrTimestamps ==
    [f1 : {1, 2}, f2 : {2, 3, 8, 10}, yr : {22, 23}, ydigits : {2}, hr : {1}, mi : {0},
     sec : {FALSE}, mer : {"PM"}]
    \cup {[f1 |-> 13, f2 |-> 13, yr |-> 22, ydigits |-> 2, hr |-> 25, mi |-> 0,
           sec |-> FALSE, mer |-> ""]}
OcrStarts == {4, 11}
OcrEnds == {30}
ImageHeights == {600, 2200}

\* os.makedirs(images_directory) unless it exists.
MakeDirs ==
    /\ pc = "start"
    /\ dirExists' = TRUE
    /\ pc' = "raster"
    /\ UNCHANGED <<text_defect, parseVars, cropVars>>
    /\ UNCHANGED <<nfiles, k, image_data_list, image_list, date_list, num_weeks, i,
                   pages, saved, failure>>

\* get_img_from_pdf: one file per page of the input, or convert_from_path raises.
Rasterize ==
    /\ pc = "raster"
    /\ \/ \E n \in 0..MaxImages : nfiles' = n /\ pc' = "crop" /\ failure' = failure
       \/ nfiles' = nfiles /\ pc' = "failed" /\ failure' = "raster_error"
    /\ UNCHANGED <<text_defect, parseVars, cropVars>>
    /\ UNCHANGED <<dirExists, k, image_data_list, image_list, date_list, num_weeks, i,
                   pages, saved>>

\* One iteration of the loop of crop_img_n_get_date, on file k.
\* What a text lacks: a timestamp, a timestamp one of the three formats
\* reads, or the terminator phrase.
TextDefect(matches, term) ==
    IF matches = <<>> THEN "no_timestamp"
    ELSE IF \A fmt \in {FmtMonthFirst12, FmtDayFirst12, FmtDayFirst24} :
                ~Strptime(matches[1], fmt).ok
         THEN "unparseable"
    ELSE IF term = <<>> THEN "no_terminator"
    ELSE "none"

CropOne ==
    /\ pc = "crop"
    /\ k <= nfiles
    /\ \E matches \in {<<>>} \cup {<<s>> : s \in OcrTimestamps},
          start \in OcrStarts,
          term \in {<<>>} \cup {<<e>> : e \in OcrEnds},
          height \in ImageHeights :
            LET r == IterationResult(matches, start, term, height)
            IN  /\ text_defect' = TextDefect(matches, term)
                /\ image_data_list' =
                      IF r.append
                      THEN Append(image_data_list, [file |-> k, dt |-> r.dt])
                      ELSE image_data_list
                /\ IF r.outcome = "written"
                   THEN k' = k + 1 /\ pc' = pc /\ failure' = failure
                   ELSE k' = k /\ pc' = "failed" /\ failure' = r.outcome
    /\ UNCHANGED <<parseVars, cropVars>>
    /\ UNCHANGED <<dirExists, nfiles, image_list, date_list, num_weeks, i, pages, saved>>

\* The end of crop_img_n_get_date: the sort and the two projections.
SortReturn ==
    /\ pc = "crop"
    /\ k > nfiles
    /\ LET sorted == SortByDate(image_data_list)
       IN  /\ image_data_list' = sorted
           /\ image_list' = [j \in 1..Len(sorted) |-> sorted[j].file]
           /\ date_list' = [j \in 1..Len(sorted) |-> sorted[j].dt]
    /\ pc' = "create_pdf"
    /\ UNCHANGED <<text_defect, parseVars, cropVars>>
    /\ UNCHANGED <<dirExists, nfiles, k, num_weeks, i, pages, saved, failure>>

\* create_pdf up to its loop: the number of pages.
CountWeeks ==
    /\ pc = "create_pdf"
    /\ num_weeks' = Cardinality({WeekOfYearU(date_list[j]) : j \in 1..Len(date_list)})
    /\ i' = 0
    /\ pc' = "page"
    /\ UNCHANGED <<text_defect, parseVars, cropVars>>
    /\ UNCHANGED <<dirExists, nfiles, k, image_data_list, image_list, date_list, pages,
                   saved, failure>>

\* One iteration of the page loop: img_week_specific_list[0] raises IndexError
\* when no image has the week index i+1.
DrawPage ==
    /\ pc = "page"
    /\ i < num_weeks
    /\ LET img_week_specific_list == WeekSpecific(image_data_list, i + 1)
       IN  IF img_week_specific_list = <<>>
           THEN /\ pc' = "failed"
                /\ failure' = "index_error"
                /\ UNCHANGED <<i, pages>>
           ELSE LET start_index == IndexOf(image_list, img_week_specific_list[1])
                    end_index == IndexOf(image_list,
                                     img_week_specific_list[Len(img_week_specific_list)])
                    page_images == SubSeq(image_data_list, start_index, end_index)
                IN  /\ pages' = Append(pages, [week |-> i + 1,
                                               cells |-> PageCells(page_images)])
                    /\ i' = i + 1
                    /\ UNCHANGED <<pc, failure>>
    /\ UNCHANGED <<text_defect, parseVars, cropVars>>
    /\ UNCHANGED <<dirExists, nfiles, k, image_data_list, image_list, date_list,
                   num_weeks, saved>>

\* pdf_canvas.save() and the return of create_pdf.
SavePdf ==
    /\ pc = "page"
    /\ i >= num_weeks
    /\ saved' = TRUE
    /\ pc' = "rmtree"
    /\ UNCHANGED <<text_defect, parseVars, cropVars>>
    /\ UNCHANGED <<dirExists, nfiles, k, image_data_list, image_list, date_list,
                   num_weeks, i, pages, failure>>

\* An rmtree that leaves the directory.
RmtreeKeeps(exists) == exists

\* shutil.rmtree(images_directory)
Rmtree(exists) == FALSE

DeleteDir ==
    /\ pc = "rmtree"
    /\ dirExists' = Rmtree(dirExists)
    /\ pc' = "done"
    /\ UNCHANGED <<text_defect, parseVars, cropVars>>
    /\ UNCHANGED <<nfiles, k, image_data_list, image_list, date_list, num_weeks, i,
                   pages, saved, failure>>

Init == PipeStart("start", BOOLEAN) /\ ParseIdle /\ CropIdle

Next ==
    \/ MakeDirs
    \/ Rasterize
    \/ CropOne
    \/ SortReturn
    \/ CountWeeks
    \/ DrawPage
    \/ SavePdf
    \/ DeleteDir

Spec == Init /\ [][Next]_vars

\* ----------------------------------------------------------- parsing alone

\* The parsing of one matched timestamp (the try/except of the loop).
InitParse ==
    /\ PipeStart("idle", {FALSE})
    /\ CropIdle
    /\ datetime_str \in TimestampStrings
    /\ datetime_obj = ValueError
    /\ parsed = FALSE

ParseStep ==
    /\ ~parsed
    /\ datetime_obj' = ParseDatetime(datetime_str)
    /\ parsed' = TRUE
    /\ UNCHANGED <<datetime_str, pipeVars, cropVars>>

SpecParse == InitParse /\ [][ParseStep]_vars

\* ---------------------------------------------------------- cropping alone

\* The crop, resize and write of one image whose text holds both matches.
InitCrop ==
    /\ PipeStart("idle", {FALSE})
    /\ ParseIdle
    /\ crop_in \in [start : 0..MaxOffset, end : 0..MaxOffset, height : ImageHeights]
    /\ cropped_img = NoWindow
    /\ crop_out = "pending"

CropStep ==
    /\ crop_out = "pending"
    /\ LET w == CropWindow(crop_in.start, crop_in.end)
           rows == NumpyRows(w.top, w.bottom, crop_in.height)
       IN  /\ cropped_img' = [top |-> w.top, bottom |-> w.bottom, rows |-> rows]
           /\ crop_out' = ResizeWrite(rows)
    /\ UNCHANGED <<crop_in, pipeVars, parseVars>>

SpecCrop == InitCrop /\ [][CropStep]_vars

\* ------------------------------------------------------------------ claims

AfterSort == pc \in {"create_pdf", "page", "rmtree", "done"} \/ failure = "index_error"

DistinctWeekIndexes == {WeekIndex(date_list[j]) : j \in 1..Len(date_list)}

\* The cells, over all pages, that show file f.
CellsOf(f) ==
    {<<p, c>> \in (1..Len(pages)) \X (1..Len(image_data_list)) :
        c <= Len(pages[p].cells) /\ pages[p].cells[c].file = f}

\* C1: once create_pdf has saved the document of a non-empty timeline, the
\* number of pages it drew equals the number of distinct week indexes
\* (day_of_month - 1) div 7 + 1 among the timeline's dates.
C1_PagesEqualDistinctWeekIndexes ==
    (saved /\ date_list # <<>>) => Len(pages) = Cardinality(DistinctWeekIndexes)

\* C2: every cell of the page headed "Week k" shows an image whose week index
\* is k, and the cells of a page are in ascending timestamp order.
C2_PageHoldsItsWeekInOrder ==
    \A p \in 1..Len(pages) :
        LET cells == pages[p].cells
        IN  /\ \A c \in 1..Len(cells) : WeekIndex(cells[c].dt) = pages[p].week
            /\ \A c \in 1..(Len(cells) - 1) : ~DtLess(cells[c + 1].dt, cells[c].dt)

\* C3, as claimed: the member at 0-based index idx is at x = 50 when idx is even
\* and x = 350 when idx is odd, and its label is at y = 780 - 65 * (idx div 2).
C3_RowStep65PerPair ==
    \A p \in 1..Len(pages) : \A c \in 1..Len(pages[p].cells) :
        /\ pages[p].cells[c].x = (IF (c - 1) % 2 = 0 THEN 50 ELSE 350)
        /\ pages[p].cells[c].label_y = 780 - 65 * ((c - 1) \div 2)

\* C3, amended: the member at 0-based index idx is at x = 50 when idx is even
\* and x = 350 when idx is odd, its label is at y = 780 - 130 * (idx div 2) and
\* its image 100 below the label: the row descends by 130 per pair index, so
\* cell 2 is in the left column 130 below cell 0.
C3_RowStep130PerPair ==
    \A p \in 1..Len(pages) :
        LET cells == pages[p].cells
        IN  /\ \A c \in 1..Len(cells) :
                /\ cells[c].x = (IF (c - 1) % 2 = 0 THEN 50 ELSE 350)
                /\ cells[c].label_y = 780 - 130 * ((c - 1) \div 2)
                /\ cells[c].image_y = cells[c].label_y - 100
            /\ Len(cells) >= 3 =>
                /\ cells[3].x = cells[1].x
                /\ cells[3].label_y = cells[1].label_y - 130

\* A page of three cells has been drawn.
C3_Witness == \E p \in 1..Len(pages) : Len(pages[p].cells) >= 3

\* C4: when the text of an image has no timestamp, a timestamp none of the
\* three formats reads, or no terminator phrase, the run has aborted in
\* crop_img_n_get_date: nothing is sorted, no page is drawn, nothing is saved;
\* and whatever is laid out or saved holds every file of the directory.
C4_DefectiveTextAborts ==
    /\ text_defect # "none" =>
        /\ pc = "failed"
        /\ failure \in {"no_timestamp", "parse_error", "no_terminator"}
        /\ image_list = <<>> /\ date_list = <<>> /\ pages = <<>> /\ ~saved
    /\ (AfterSort \/ saved) =>
        {image_data_list[j].file : j \in 1..Len(image_data_list)} = 1..nfiles

\* The third image's text has a timestamp and no terminator phrase, after two
\* images that were cropped.
C4_Witness ==
    /\ text_defect = "no_terminator"
    /\ k = 3
    /\ Len(image_data_list) = 3
    /\ pc = "failed"

\* C5: a crop window that reaches outside the image's rows is clamped: rows
\* are cropped, resized and written back, and the run does not abort.
C5_OutOfBoundsWindowIsClamped ==
    (/\ crop_out # "pending"
     /\ \/ cropped_img.bottom > crop_in.height
        \/ cropped_img.top >= crop_in.height) =>
        crop_out = "written" /\ cropped_img.rows >= 1

\* C6: the window is [s, e+900] for s < 5, [s+600, e+1250] for 10 < s < 45,
\* [s+700, e+1200] for s >= 50 and [s, e+700] for every other s (5..10 and
\* 45..49); exactly one of the four ranges holds of every s.
C6_FourOffsetRanges ==
    crop_out # "pending" =>
        LET s == crop_in.start
            e == crop_in.end
            top == cropped_img.top
            bottom == cropped_img.bottom
            r1 == s < 5
            r2 == 10 < s /\ s < 45
            r3 == s >= 50
            r4 == s \in (5..10) \cup (45..49)
        IN  /\ r1 => top = s /\ bottom = e + 900
            /\ r2 => top = s + 600 /\ bottom = e + 1250
            /\ r3 => top = s + 700 /\ bottom = e + 1200
            /\ r4 => top = s /\ bottom = e + 700
            /\ Cardinality({r \in {1, 2, 3, 4} :
                    (r = 1 /\ r1) \/ (r = 2 /\ r2) \/ (r = 3 /\ r3) \/ (r = 4 /\ r4)}) = 1
            /\ s = 4 => bottom = e + 900
            /\ s \in {5, 10, 49} => top = s /\ bottom = e + 700
            /\ s = 11 => top = 611
            /\ s = 50 => top = 750

\* The image whose timestamp is at offset 10 has been cropped.
C6_Witness == crop_out # "pending" /\ crop_in.start = 10 /\ cropped_img.top = 10

\* C7: the three formats are tried in the order month/day 12-hour, day/month
\* 12-hour, day/month 24-hour and the first that reads the string gives the
\* result: with a meridiem a string both orders read is month-first, one only
\* the day-first order reads is day-first; without a meridiem the string is
\* read day-first on the 24-hour clock; the parse fails exactly when no format
\* reads the string.
C7_ParseOrder ==
    parsed =>
        LET s == datetime_str
            r == datetime_obj
            Ts(f1, f2, hr, mer) ==
                [f1 |-> f1, f2 |-> f2, yr |-> 22, ydigits |-> 2, hr |-> hr, mi |-> 0,
                 sec |-> FALSE, mer |-> mer]
            At(mo, dy, hour) ==
                [ok |-> TRUE, year |-> 2022, month |-> mo, day |-> dy, hour |-> hour,
                 minute |-> 0]
        IN  /\ r.ok = \E fmt \in {FmtMonthFirst12, FmtDayFirst12, FmtDayFirst24} :
                          Strptime(s, fmt).ok
            /\ (r.ok /\ s.mer # "" /\ Strptime(s, FmtMonthFirst12).ok) =>
                   r.month = s.f1 /\ r.day = s.f2
            /\ (r.ok /\ s.mer # "" /\ ~Strptime(s, FmtMonthFirst12).ok) =>
                   r.day = s.f1 /\ r.month = s.f2
            /\ (r.ok /\ s.mer = "") =>
                   r.day = s.f1 /\ r.month = s.f2 /\ r.hour = s.hr
            /\ s = Ts(3, 4, 1, "PM") => r = At(3, 4, 13)
            /\ s = Ts(31, 1, 14, "") => r = At(1, 31, 14)
            /\ s = Ts(13, 13, 25, "") => ~r.ok

\* "03/04/22, 1:00 PM" has been parsed, as March 4.
C7_Witness ==
    /\ parsed
    /\ datetime_str = [f1 |-> 3, f2 |-> 4, yr |-> 22, ydigits |-> 2, hr |-> 1,
                       mi |-> 0, sec |-> FALSE, mer |-> "PM"]
    /\ datetime_obj.ok
    /\ datetime_obj.month = 3

\* C8: the working directory is gone at the end of a successful run, after the
\* document was saved, and a run that failed has not deleted it.
C8_DirDeletedOnlyOnSuccess ==
    /\ pc = "done" => saved /\ ~dirExists
    /\ pc = "failed" => dirExists
    /\ pc \in {"raster", "crop", "create_pdf", "page", "rmtree"} => dirExists

\* A run that drew pages has ended and the directory is gone.
C8_Witness == pc = "done" /\ ~dirExists /\ saved /\ Len(pages) >= 1

\* C9: what crop_img_n_get_date returns is in ascending timestamp order,
\* entries of the same timestamp are in the order they were appended (the
\* order of the files), every appended entry is there, and image_list and
\* date_list are the two projections of image_data_list.
C9_SortedStable ==
    AfterSort =>
        /\ Len(image_data_list) = nfiles
        /\ {image_data_list[j].file : j \in 1..nfiles} = 1..nfiles
        /\ \A a, b \in 1..Len(image_data_list) :
              a < b =>
                /\ ~DtLess(image_data_list[b].dt, image_data_list[a].dt)
                /\ image_data_list[a].dt = image_data_list[b].dt =>
                      image_data_list[a].file < image_data_list[b].file
        /\ Len(image_list) = nfiles /\ Len(date_list) = nfiles
        /\ \A j \in 1..nfiles :
              image_list[j] = image_data_list[j].file /\ date_list[j] = image_data_list[j].dt

\* Files 1 and 2 have one timestamp and file 3 an earlier one: sorted, 3, 1, 2.
C9_Witness ==
    /\ AfterSort
    /\ image_list = <<3, 1, 2>>
    /\ date_list[2] = date_list[3]
    /\ DtLess(date_list[1], date_list[2])

\* C10: once create_pdf has saved the document of a non-empty timeline, every
\* image of the timeline is in exactly one cell over all pages.
C10_EveryImageDrawnOnce ==
    (saved /\ date_list # <<>>) =>
        \A j \in 1..Len(image_list) : Cardinality(CellsOf(image_list[j])) = 1

=============================================================================
